---- MODULE Spec2Model ----
(***************************************************************************)
(* Aggregation pipeline of daily-game-drops: the /api/fetch-deals route    *)
(* handlers (src/src/app/api/fetch-deals/route.ts, src/unnamed/part_012),  *)
(* the RSS / vendor-promotions adapters (src/src/lib/rss.ts) and the       *)
(* Firestore gateway (src/src/lib/firebase.ts).                            *)
(*                                                                         *)
(* Representation.  Money is an amount in cents; a formatted price is a    *)
(* record [sym, cents] where sym is "$" for `$${x.toFixed(2)}` and the     *)
(* literal text otherwise.  A savings string is the number of hundredths   *)
(* of a percent it parses to.  A numeric field that a record does not have *)
(* is Undefined.                                                           *)
(* Instants are integers (a bigger number is a later instant); an          *)
(* unparseable date is InvalidDate.  An identifier is a record             *)
(* [pre, base]: base with the string prefixes pre put in front of it.      *)
(***************************************************************************)
EXTENDS Integers, Sequences, FiniteSets, TLC

\* ------------------------------------------------------------ constants
DEFAULT_LIMIT == 10
DEFAULT_RSS_LIMIT == 5
MIN_SAVINGS_PERCENT == 20
CRON_MIN_SAVINGS == 25

\* The time line: the instant at which the documents already in the store
\* were written, then yesterday, then today, at which a request arrives; the
\* clock may advance MaxTicks times while the request is handled.
StoreTime == 0
MaxTicks == 1
\* the days a document lives before it expires
EXPIRY_DAYS == 30
Yesterday == StoreTime + 1
Today == Yesterday + 1
MaxNow == Today + MaxTicks
InvalidDate == 0 - 1

\* ------------------------------------------------------------ values
Free == [sym |-> "Free", cents |-> 0]
ComingSoon == [sym |-> "Coming Soon", cents |-> 0]
PriceNotAvailable == [sym |-> "Price not available", cents |-> 0]
Usd(c) == [sym |-> "$", cents |-> c]
\* `$${NaN.toFixed(2)}`
NaNPrice == [sym |-> "$NaN", cents |-> 0]

\* n percent
Percent(n) == n * 100

\* the value of a numeric field the record does not have; parseFloat of it is
\* NaN, which is neither 0 nor above any threshold
Undefined == 0 - 999999

Id(p, b) == [pre |-> p, base |-> b]
Prefixed(p, id) == [pre |-> <<p>> \o id.pre, base |-> id.base]

Title(t) == [text |-> t, soon |-> FALSE, start |-> 0]

\* ------------------------------------------------------------ sequences
Range(s) == {s[i] : i \in 1..Len(s)}

Take(s, n) == IF n >= Len(s) THEN s ELSE SubSeq(s, 1, n)

RECURSIVE Flat(_)
Flat(ss) == IF ss = <<>> THEN <<>> ELSE Head(ss) \o Flat(Tail(ss))

RECURSIVE Filter(_, _)
Filter(s, keep) ==
  IF s = <<>> THEN <<>>
  ELSE IF keep[Head(s)] THEN <<Head(s)>> \o Filter(Tail(s), keep)
       ELSE Filter(Tail(s), keep)

\* x.toFixed(0) / Math.round of n/d for d > 0: nearest integer, halves away
\* from zero.
RoundDiv(n, d) ==
  IF n >= 0 THEN (2 * n + d) \div (2 * d)
  ELSE 0 - ((2 * (0 - n) + d) \div (2 * d))

\* ------------------------------------------------------------ slugs
\* A string whose characters matter is the sequence of its characters.
SLUG_MAX == 50

UpperCaseLetters ==
  <<"A", "B", "C", "D", "E", "F", "G", "H", "I", "J", "K", "L", "M", "N", "O",
    "P", "Q", "R", "S", "T", "U", "V", "W", "X", "Y", "Z">>
LowerCaseLetters ==
  <<"a", "b", "c", "d", "e", "f", "g", "h", "i", "j", "k", "l", "m", "n", "o",
    "p", "q", "r", "s", "t", "u", "v", "w", "x", "y", "z">>
DigitChars == <<"0", "1", "2", "3", "4", "5", "6", "7", "8", "9">>

\* [a-z0-9]
IsAlnum(c) == c \in Range(LowerCaseLetters) \cup Range(DigitChars)

LowerChar(c) ==
  IF c \in Range(UpperCaseLetters)
  THEN LowerCaseLetters[CHOOSE i \in 1..Len(UpperCaseLetters) : UpperCaseLetters[i] = c]
  ELSE c

\* title.toLowerCase()
LowerChars(str) == [i \in 1..Len(str) |-> LowerChar(str[i])]

\* .replace(/[^a-z0-9]+/g, '-'): inRun tells that the hyphen of the current
\* run of other characters is already written
RECURSIVE ReplaceRuns(_, _)
ReplaceRuns(str, inRun) ==
  IF str = <<>> THEN <<>>
  ELSE IF IsAlnum(Head(str)) THEN <<Head(str)>> \o ReplaceRuns(Tail(str), FALSE)
       ELSE (IF inRun THEN <<>> ELSE <<"-">>) \o ReplaceRuns(Tail(str), TRUE)

RECURSIVE DropLeadingHyphens(_)
DropLeadingHyphens(str) ==
  IF str # <<>> /\ Head(str) = "-" THEN DropLeadingHyphens(Tail(str)) ELSE str

RECURSIVE DropTrailingHyphens(_)
DropTrailingHyphens(str) ==
  IF str # <<>> /\ str[Len(str)] = "-"
  THEN DropTrailingHyphens(SubSeq(str, 1, Len(str) - 1)) ELSE str

\* .replace(/^-+|-+$/g, '')
TrimHyphens(str) == DropTrailingHyphens(DropLeadingHyphens(str))

\* .replace(/(^-|-$)/g, ''): one hyphen at each end
TrimOneHyphen(str) ==
  LET a == IF str # <<>> /\ Head(str) = "-" THEN Tail(str) ELSE str
  IN IF a # <<>> /\ a[Len(a)] = "-" THEN SubSeq(a, 1, Len(a) - 1) ELSE a

\* .replace(/-{2,}/g, '-')
RECURSIVE CollapseHyphens(_)
CollapseHyphens(str) ==
  IF Len(str) < 2 THEN str
  ELSE IF str[1] = "-" /\ str[2] = "-" THEN CollapseHyphens(Tail(str))
       ELSE <<Head(str)>> \o CollapseHyphens(Tail(str))

\* .slice(0, n)
Slice(str, n) == IF n >= Len(str) THEN str ELSE SubSeq(str, 1, n)

\* String(n) of a natural number
RECURSIVE Digits(_)
Digits(n) ==
  IF n < 10 THEN <<DigitChars[n + 1]>>
  ELSE Digits(n \div 10) \o <<DigitChars[(n % 10) + 1]>>

\* the chain of route.ts generateSlug and of part_012 generateSlug
\* (each call of the chain works on the value of the call before it)
SanitizeTitle(title) ==
  CHOOSE slug \in
    {Slice(collapsed, SLUG_MAX) :
       collapsed \in {CollapseHyphens(trimmed) :
         trimmed \in {TrimHyphens(replaced) :
           replaced \in {ReplaceRuns(lower, FALSE) :
             lower \in {LowerChars(title)}}}}} : TRUE

\* route.ts generateSlug(title) at instant now
GenerateSlug(title, now) ==
  IF title = <<>> THEN <<"g", "a", "m", "e", "-">> \o Digits(now)
  ELSE SanitizeTitle(title)

\* part_012 generateSlug(title, gameId)
GenerateSlug_p12(title, gameId) ==
  IF gameId # <<>> THEN SanitizeTitle(title) \o <<"-">> \o gameId
  ELSE SanitizeTitle(title)

\* rss.ts: the slug of parseHumbleFeed and of parseEpicGamesFeed
RssSlug(title) ==
  Slice(TrimOneHyphen(ReplaceRuns(LowerChars(title), FALSE)), SLUG_MAX)

\* the characters of the title texts of the inputs
Chars(text) ==
  CASE text = "Celeste" -> <<"C", "e", "l", "e", "s", "t", "e">>
    [] text = "Braid" -> <<"B", "r", "a", "i", "d">>
    [] text = "Fez" -> <<"F", "e", "z">>
    [] text = "Limbo" -> <<"L", "i", "m", "b", "o">>
    [] text = "Nidhogg" -> <<"N", "i", "d", "h", "o", "g", "g">>
    [] text = "Amnesia" -> <<"A", "m", "n", "e", "s", "i", "a">>
    [] text = "Spelunky" -> <<"S", "p", "e", "l", "u", "n", "k", "y">>
    [] text = "Doom" -> <<"D", "o", "o", "m">>
    [] text = "Unrailed" -> <<"U", "n", "r", "a", "i", "l", "e", "d">>
    [] text = "Gris" -> <<"G", "r", "i", "s">>
    [] text = "Kona" -> <<"K", "o", "n", "a">>
    [] text = "Eve" -> <<"E", "v", "e">>
    [] text = "Quern" -> <<"Q", "u", "e", "r", "n">>
    [] text = "Zup" -> <<"Z", "u", "p">>
    [] OTHER -> <<>>

\* ------------------------------------------------------------ Discount API
\* A raw deal of the CheapShark payload.  titleIsString = FALSE stands for a
\* title that is present but not a string, on which title.toLowerCase()
\* throws.
RawDeal(id, game, t, isStr, normal, sale, sav, img) ==
  [dealID |-> Id(<<>>, id), gameID |-> Digits(game), title |-> t,
   titleIsString |-> isStr,
   normalPrice |-> normal, salePrice |-> sale, savings |-> sav, thumb |-> img]

\* route.ts fetchCheapSharkDeals(limit, minSavings) on a 2xx JSON payload
FetchCheapSharkDeals_route(deals, minSavings) ==
  IF minSavings > 0
  THEN Filter(deals, [d \in Range(deals) |-> d.savings >= Percent(minSavings)])
  ELSE deals

\* route.ts generateSlug(title) throws on a title that is no string
ProcessDealThrows(deal) == ~deal.titleIsString

\* route.ts processDeal(deal) at instant now, when it does not throw
ProcessDeal(deal, now) ==
  [id |-> deal.dealID,
   title |-> Title(deal.title),
   dealID |-> deal.dealID,
   slug |-> GenerateSlug(Chars(deal.title), now),
   imageUrl |-> deal.thumb,
   originalPrice |-> IF deal.normalPrice = Undefined THEN NaNPrice
                     ELSE Usd(deal.normalPrice),
   dealPrice |-> IF deal.salePrice = 0 THEN Free
                 ELSE IF deal.salePrice = Undefined THEN NaNPrice
                 ELSE Usd(deal.salePrice),
   savings |-> deal.savings,
   datePosted |-> now,
   dateAdded |-> now,
   source |-> "api",
   sourceType |-> "cheapshark"]

\* new Map(allDeals.map(deal => [deal.dealID, deal])).values(): a key keeps
\* the position of its first insertion and the value of its last.
RECURSIVE MapSet(_, _)
MapSet(entries, deal) ==
  IF entries = <<>> THEN <<deal>>
  ELSE IF Head(entries).dealID = deal.dealID THEN <<deal>> \o Tail(entries)
       ELSE <<Head(entries)>> \o MapSet(Tail(entries), deal)

RECURSIVE DedupFrom(_, _)
DedupFrom(entries, rest) ==
  IF rest = <<>> THEN entries
  ELSE DedupFrom(MapSet(entries, Head(rest)), Tail(rest))

\* DedupByDealID keeping the first deal of a dealID instead of the last
RECURSIVE KeepFirstFrom(_, _)
KeepFirstFrom(entries, rest) ==
  IF rest = <<>> THEN entries
  ELSE IF \E i \in 1..Len(entries) : entries[i].dealID = Head(rest).dealID
       THEN KeepFirstFrom(entries, Tail(rest))
       ELSE KeepFirstFrom(entries \o <<Head(rest)>>, Tail(rest))

DedupByDealID_firstWins(allDeals) == KeepFirstFrom(<<>>, allDeals)

DedupByDealID(allDeals) == DedupFrom(<<>>, allDeals)

\* part_012 fetchCheapSharkDeals: the comparator of the ranking sort
CompareRanked(a, b) ==
  IF a.salePrice = 0 /\ b.salePrice # 0 THEN 0 - 1
  ELSE IF a.salePrice # 0 /\ b.salePrice = 0 THEN 1
  ELSE b.savings - a.savings

\* Array.prototype.sort is stable: an element goes after the elements it
\* does not compare below.
RECURSIVE InsertRanked(_, _)
InsertRanked(sorted, x) ==
  IF sorted = <<>> THEN <<x>>
  ELSE IF CompareRanked(x, Head(sorted)) < 0 THEN <<x>> \o sorted
       ELSE <<Head(sorted)>> \o InsertRanked(Tail(sorted), x)

RECURSIVE SortRankedFrom(_, _)
SortRankedFrom(done, rest) ==
  IF rest = <<>> THEN done
  ELSE SortRankedFrom(InsertRanked(done, Head(rest)), Tail(rest))

SortRanked(s) == SortRankedFrom(<<>>, s)

\* part_012 quality filters of fetchCheapSharkDeals
HasThumb(deal) == deal.thumb # ""
GoodSavings(deal) ==
  deal.salePrice = 0 \/ deal.savings >= Percent(MIN_SAVINGS_PERCENT)

QualityFilter(deals) ==
  LET withImage == Filter(deals, [d \in Range(deals) |-> HasThumb(d)])
  IN Filter(withImage, [d \in Range(withImage) |-> GoodSavings(d)])

\* part_012 formatPrice
FormatPrice(price) == IF price = 0 THEN Free ELSE Usd(price)

\* part_012 generateSlug(title, gameId) throws on a title that is no string,
\* formatPrice(undefined) on undefined.toFixed
TransformThrows(deal) ==
  \/ ~deal.titleIsString
  \/ deal.normalPrice = Undefined
  \/ deal.salePrice = Undefined

\* part_012 transformDealToAppFormat(deal) at instant now
TransformDealToAppFormat(deal, now) ==
  [id |-> deal.dealID,
   title |-> Title(deal.title),
   dealID |-> deal.dealID,
   slug |-> GenerateSlug_p12(Chars(deal.title), deal.gameID),
   imageUrl |-> deal.thumb,
   originalPrice |-> FormatPrice(deal.normalPrice),
   dealPrice |-> FormatPrice(deal.salePrice),
   savings |-> deal.savings,
   datePosted |-> now,
   dateAdded |-> now,
   source |-> "api",
   sourceType |-> "cheapshark"]

\* part_012 fetchCheapSharkDeals: the raw deals kept, in rank order
SelectDeals(results, limit) ==
  Take(SortRanked(QualityFilter(DedupByDealID(Flat(results)))), limit)

\* part_012 fetchCheapSharkDeals(limit) on the results of its requests; an
\* exception anywhere in it is caught and gives [].
FetchCheapSharkDeals_p12(results, limit, now) ==
  LET kept == SelectDeals(results, limit)
  IN IF \E i \in 1..Len(kept) : TransformThrows(kept[i]) THEN <<>>
     ELSE [i \in 1..Len(kept) |-> TransformDealToAppFormat(kept[i], now)]

\* ------------------------------------------------------------ Storefront RSS
NoMatch == 0 - 1

\* An item of the Humble feed as the parser sees it: priceMatch and saleMatch
\* are the amounts the two regular expressions capture from the description
\* (NoMatch when the expression does not match), includesFree is
\* title.toLowerCase().includes('free'), contentImg is the image found in
\* content:encoded and enclosureUrl the url of the enclosure ("" when none).
HumbleItem(g, t, free, hasDesc, orig, sale, date, cImg, eImg) ==
  [guid |-> g, title |-> t, includesFree |-> free, hasDescription |-> hasDesc,
   priceMatch |-> orig, saleMatch |-> sale, pubDate |-> date,
   contentImg |-> cImg, enclosureUrl |-> eImg]

\* item.description.match on a missing description and
\* new Date(item.pubDate).toISOString() on an unparseable date throw
HumbleItemThrows(item) == ~item.hasDescription \/ item.pubDate = InvalidDate

HumbleSavings(item) ==
  LET isFree == item.saleMatch = NoMatch \/ item.includesFree
  IN IF isFree THEN Percent(100)
     ELSE IF item.priceMatch # NoMatch /\ item.saleMatch # NoMatch
               /\ item.priceMatch > 0
          THEN Percent(RoundDiv((item.priceMatch - item.saleMatch) * 100,
                                item.priceMatch))
          ELSE Percent(0)

ParseHumbleItem(item, now) ==
  [id |-> Id(<<>>, item.guid),
   title |-> Title(item.title),
   dealID |-> Prefixed("humble-", Id(<<>>, item.guid)),
   slug |-> RssSlug(Chars(item.title)),
   imageUrl |-> IF item.contentImg # "" THEN item.contentImg ELSE item.enclosureUrl,
   originalPrice |-> IF item.priceMatch # NoMatch THEN Usd(item.priceMatch)
                     ELSE PriceNotAvailable,
   dealPrice |-> IF item.saleMatch # NoMatch THEN Usd(item.saleMatch) ELSE Free,
   savings |-> HumbleSavings(item),
   datePosted |-> item.pubDate,
   dateAdded |-> now,
   source |-> "rss",
   sourceType |-> "humble"]

\* rss.ts parseHumbleFeed: an exception in the map is caught around the whole
\* feed and gives [].
ParseHumbleFeed(items, now) ==
  IF \E i \in 1..Len(items) : HumbleItemThrows(items[i]) THEN <<>>
  ELSE [i \in 1..Len(items) |-> ParseHumbleItem(items[i], now)]

\* ------------------------------------------------------------ Vendor promotions
Promo(s, e) == [startDate |-> s, endDate |-> e]

\* game.price?.totalPrice?.fmtPrice?.originalPrice when it is absent or empty
NoPrice == [sym |-> "", cents |-> 0]

\* An element of the Epic catalog.  promotionalOffers and
\* upcomingPromotionalOffers are lists of offer groups, each a list of
\* promotions; both are empty when the element has no promotions object.
EpicGame(i, t, price, active, upcoming, imgs) ==
  [id |-> i, title |-> t, fmtOriginalPrice |-> price,
   promotionalOffers |-> active, upcomingPromotionalOffers |-> upcoming,
   keyImages |-> imgs]

\* HasCurrentPromotion that an upcoming offer overrides
HasCurrentPromotion_unlessUpcoming(game) ==
  Len(game.promotionalOffers) > 0 /\ Len(game.upcomingPromotionalOffers) = 0

HasCurrentPromotion(game) == Len(game.promotionalOffers) > 0
HasUpcomingPromotion(game) == Len(game.upcomingPromotionalOffers) > 0

EpicQualifies(game) == HasCurrentPromotion(game) \/ HasUpcomingPromotion(game)

\* the offer group the promotion is read from
EpicGroup(game) ==
  IF HasCurrentPromotion(game) THEN game.promotionalOffers[1]
  ELSE game.upcomingPromotionalOffers[1]

\* promotionalOffers[0].promotionalOffers[0] is undefined for an empty group,
\* and reading promotion.startDate then throws; toISOString() throws on an
\* unparseable date.
EpicGameThrows(game) ==
  \/ Len(EpicGroup(game)) = 0
  \/ EpicGroup(game)[1].startDate = InvalidDate
  \/ EpicGroup(game)[1].endDate = InvalidDate

ImageTypePriority ==
  <<"OfferImageWide", "Thumbnail", "DieselStoreFrontWide", "OfferImageTall",
    "ProductLogo">>

\* keyImages.find(img => img.type === type)?.url, "" when there is none
UrlOfType(keyImages, type) ==
  LET hits == {i \in 1..Len(keyImages) : keyImages[i].type = type}
  IN IF hits = {} THEN ""
     ELSE keyImages[CHOOSE i \in hits : \A j \in hits : i <= j].url

RECURSIVE BestByPriority(_, _)
BestByPriority(keyImages, types) ==
  IF types = <<>> THEN (IF keyImages = <<>> THEN "" ELSE keyImages[1].url)
  ELSE IF UrlOfType(keyImages, Head(types)) # ""
       THEN UrlOfType(keyImages, Head(types))
       ELSE BestByPriority(keyImages, Tail(types))

FindBestEpicImage(keyImages) == BestByPriority(keyImages, ImageTypePriority)

ParseEpicGame(game, now) ==
  LET promotion == EpicGroup(game)[1]
      isUpcoming == ~HasCurrentPromotion(game)
  IN [id |-> Id(<<>>, game.id),
      title |-> IF isUpcoming
                THEN [text |-> game.title, soon |-> TRUE, start |-> promotion.startDate]
                ELSE Title(game.title),
      dealID |-> Prefixed("epic-", Id(<<>>, game.id)),
      slug |-> RssSlug(Chars(game.title)),
      imageUrl |-> FindBestEpicImage(game.keyImages),
      originalPrice |-> IF game.fmtOriginalPrice # NoPrice
                        THEN game.fmtOriginalPrice ELSE PriceNotAvailable,
      dealPrice |-> IF isUpcoming THEN ComingSoon ELSE Free,
      savings |-> Percent(100),
      datePosted |-> promotion.startDate,
      dateAdded |-> now,
      expiryDate |-> promotion.endDate,
      source |-> "rss",
      sourceType |-> "epic",
      isUpcoming |-> isUpcoming]

\* rss.ts parseEpicGamesFeed on a catalog that has the elements path
ParseEpicGamesFeed(elements, now) ==
  LET games == Filter(elements, [g \in Range(elements) |-> EpicQualifies(g)])
  IN IF \E i \in 1..Len(games) : EpicGameThrows(games[i]) THEN <<>>
     ELSE [i \in 1..Len(games) |-> ParseEpicGame(games[i], now)]

\* ------------------------------------------------------------ final list
\* .sort((a, b) => new Date(b.datePosted) - new Date(a.datePosted)), stable
RECURSIVE InsertByDate(_, _)
InsertByDate(sorted, x) ==
  IF sorted = <<>> THEN <<x>>
  ELSE IF Head(sorted).datePosted - x.datePosted < 0 THEN <<x>> \o sorted
       ELSE <<Head(sorted)>> \o InsertByDate(Tail(sorted), x)

RECURSIVE SortByDateFrom(_, _)
SortByDateFrom(done, rest) ==
  IF rest = <<>> THEN done
  ELSE CHOOSE sorted \in
         {SortByDateFrom(next, Tail(rest)) :
            next \in {InsertByDate(done, Head(rest))}} : TRUE

SortByDate(s) == CHOOSE sorted \in {SortByDateFrom(<<>>, list) : list \in {s}} : TRUE

\* { ...r, <fields of extra> }
Spread(r, extra) ==
  [f \in DOMAIN r \cup DOMAIN extra |-> IF f \in DOMAIN extra THEN extra[f] ELSE r[f]]

\* allDeals.map(deal => ({...deal, batchTimestamp, lastUpdated, fetchMethod}))
WithBatchInfo(deals, extra) == [i \in 1..Len(deals) |-> Spread(deals[i], extra)]

\* ------------------------------------------------------------ persistence
EmptyStore == [d \in {} |-> <<>>]

\* the lower-case form of the title texts of the inputs
LowerCase ==
  [t \in {"Celeste", "Braid", "Fez", "Limbo", "Nidhogg", "Amnesia", "Spelunky",
          "Doom", "Unrailed", "Gris", "Kona", "Eve", "Quern", "Zup"} |->
     CASE t = "Celeste" -> "celeste" [] t = "Braid" -> "braid" [] t = "Fez" -> "fez"
       [] t = "Limbo" -> "limbo" [] t = "Nidhogg" -> "nidhogg"
       [] t = "Amnesia" -> "amnesia" [] t = "Spelunky" -> "spelunky"
       [] t = "Doom" -> "doom" [] t = "Unrailed" -> "unrailed" [] t = "Gris" -> "gris"
       [] t = "Kona" -> "kona" [] t = "Eve" -> "eve" [] t = "Quern" -> "quern"
       [] t = "Zup" -> "zup"]

\* deal.title?.toLowerCase(): the text and, for an upcoming promotion, its
\* "Coming Soon: ... (Free ...)" decoration in lower case
ToLowerCase(title) ==
  [text |-> IF title.text \in DOMAIN LowerCase THEN LowerCase[title.text]
            ELSE title.text,
   soon |-> title.soon, start |-> title.start, lower |-> TRUE]

\* `batch_${timestamp.getTime()}`
BatchId(ts) == [batch |-> ts]

\* DealData keeping the expiry date and the lastUpdated the deal brings
DealData_ownDates(deal, ts) ==
  Spread([dateAdded |-> ts, lastUpdated |-> ts, batchId |-> BatchId(ts),
          searchableTitle |-> ToLowerCase(deal.title), dealActiveTimestamp |-> ts,
          expiresAt |-> IF "expiryDate" \in DOMAIN deal THEN deal.expiryDate
                        ELSE ts + EXPIRY_DAYS],
         deal)

\* SetMerge replacing the whole document
SetMerge_overwrite(st, w) ==
  [d \in DOMAIN st \cup {w.docId} |-> IF d # w.docId THEN st[d] ELSE w.data]

\* firebase.ts saveDealsToDb: the document written for one deal at timestamp ts
DealData(deal, ts) ==
  Spread(deal, [dateAdded |-> IF "dateAdded" \in DOMAIN deal THEN deal.dateAdded ELSE ts,
                lastUpdated |-> ts, batchId |-> BatchId(ts),
                searchableTitle |-> ToLowerCase(deal.title),
                dealActiveTimestamp |-> ts, expiresAt |-> ts + EXPIRY_DAYS])

\* deal[field] is neither undefined nor the empty string
Has(deal, field) == field \in DOMAIN deal /\ deal[field] # Id(<<>>, "")

\* Math.random().toString(36).substring(2, 15)
Randoms == {"r1", "r2"}

\* `deal_${Date.now()}_${random}`
RandomId(ts, r) == [pre |-> <<"deal_">>, base |-> r, time |-> ts]

\* DocId taking the id before the dealID
DocId_idFirst(deal, ts, r) ==
  IF Has(deal, "id") THEN deal.id
  ELSE IF Has(deal, "dealID") THEN deal.dealID ELSE RandomId(ts, r)

\* DocId that never uses the identifiers of the deal
DocId_alwaysRandom(deal, ts, r) == RandomId(ts, r)

\* deal.dealID || deal.id || `deal_${Date.now()}_${random}`
DocId(deal, ts, r) ==
  IF Has(deal, "dealID") THEN deal.dealID
  ELSE IF Has(deal, "id") THEN deal.id ELSE RandomId(ts, r)

\* the batch.set(docRef, dealData, {merge: true}) calls of one saveDealsToDb
BuildBatch(deals, ts, rnd) ==
  [i \in 1..Len(deals) |->
     [docId |-> DocId(deals[i], ts, IF i \in DOMAIN rnd THEN rnd[i] ELSE ""),
      data |-> DealData(deals[i], ts)]]

\* the batches one saveDealsToDb may build: one per outcome of Math.random()
\* for the deals that need it
Batches(deals, ts) ==
  {BuildBatch(deals, ts, rnd) :
     rnd \in [{i \in 1..Len(deals) : ~Has(deals[i], "dealID") /\ ~Has(deals[i], "id")}
               -> Randoms]}

\* set with merge: fields of the payload replace, the others stay
SetMerge(st, w) ==
  [d \in DOMAIN st \cup {w.docId} |->
     IF d # w.docId THEN st[d]
     ELSE IF d \in DOMAIN st THEN Spread(st[d], w.data) ELSE w.data]

RECURSIVE ApplyWrites(_, _)
ApplyWrites(st, writes) ==
  IF writes = <<>> THEN st ELSE ApplyWrites(SetMerge(st, Head(writes)), Tail(writes))

\* CommitBatch writing the documents one by one and stopping after the first
CommitBatch_firstOnly(st, writes) ==
  IF writes = <<>> THEN st ELSE SetMerge(st, Head(writes))

\* batch.commit() that succeeds: every write of the batch, at once
CommitBatch(st, writes) == ApplyWrites(st, writes)

\* ------------------------------------------------------------ inputs
NextWeek == Today + 7
Soon == Today + 5

DealC == RawDeal("d3", 103, "Celeste", TRUE, 2500, 500, Percent(80), "c.jpg")
DealC2 == RawDeal("d3", 103, "Celeste", TRUE, 2500, 1000, Percent(60), "c2.jpg")
DealB == RawDeal("d2", 102, "Braid", TRUE, 2000, 1000, Percent(50), "b.jpg")
DealF == RawDeal("d1", 101, "Fez", TRUE, 1000, 0, Percent(100), "f.jpg")
DealL == RawDeal("d4", 104, "Limbo", TRUE, 1000, 900, Percent(10), "l.jpg")
DealN == RawDeal("d5", 105, "Nidhogg", TRUE, 1000, 100, Percent(90), "")
DealX == RawDeal("d6", 106, "", FALSE, 1000, 100, Percent(90), "x.jpg")
\* the game of DealC at a second store
DealC3 == RawDeal("d12", 103, "Celeste", TRUE, 2500, 750, Percent(70), "c3.jpg")

\* The JSON arrays a deals request may answer with.  q1 is the request of
\* route.ts and the "recent" request of part_012, q2 its "savings" request,
\* q3 its "metacritic" request and q4 its free-games request.
CSPayloads(q) ==
  CASE q = "q1" -> {<<DealC, DealB>>, <<DealF, DealC2, DealL, DealC>>, <<DealN, DealX>>,
                    <<DealC, DealC3>>}
    [] q = "q2" -> {<<DealC, DealB>>, <<DealF, DealC2, DealL, DealC>>}
    [] q = "q3" -> {<<DealC2>>}
    [] q = "q4" -> {<<DealF>>}

ItemA == HumbleItem("g1", "Amnesia", FALSE, TRUE, 1999, NoMatch, Yesterday, "a.jpg", "")
ItemA2 == HumbleItem("g1", "Amnesia", FALSE, TRUE, 1999, 999, Today, "", "a2.jpg")
ItemS == HumbleItem("g2", "Spelunky", FALSE, TRUE, 1000, 900, Today, "", "")
ItemD == HumbleItem("g3", "Doom", FALSE, FALSE, NoMatch, NoMatch, Today, "d.jpg", "")
ItemU == HumbleItem("g4", "Unrailed", FALSE, TRUE, 1000, 500, InvalidDate, "u.jpg", "")

\* the item lists of the feeds the Humble store may answer with
HumbleFeeds == {<<ItemA, ItemS>>, <<ItemA, ItemD>>, <<ItemU, ItemA>>, <<ItemA, ItemA2>>}

Img(t, u) == [type |-> t, url |-> u]

GameG == EpicGame("e1", "Gris", Usd(1499), <<(<<Promo(Yesterday, NextWeek)>>)>>, <<>>,
                  <<Img("Thumbnail", "g.jpg")>>)
GameK == EpicGame("e2", "Kona", NoPrice, <<>>, <<(<<Promo(Soon, NextWeek)>>)>>, <<>>)
GameE == EpicGame("e3", "Eve", Usd(999), <<(<<>>)>>, <<>>, <<Img("OfferImageWide", "e.jpg")>>)
GameQ == EpicGame("e4", "Quern", Usd(2499), <<(<<Promo(Today, NextWeek)>>)>>,
                  <<(<<Promo(Soon, NextWeek)>>)>>,
                  <<Img("VaultClosed", "q0.jpg"), Img("OfferImageTall", "q.jpg")>>)
GameZ == EpicGame("e5", "Zup", NoPrice, <<>>, <<>>, <<Img("Thumbnail", "z.jpg")>>)

\* the element lists of the catalogs the Epic endpoint may answer with
EpicCatalogs == {<<GameG, GameK>>, <<GameG, GameE>>, <<GameQ, GameZ>>}

\* the ways a fetch fails: a non-2xx response, a rejected fetch, a body that
\* does not parse to the expected shape
Failures == {"status", "network", "malformed"}

Secret == "s3cret"
\* process.env.CRON_SECRET: "" when it is not set
Secrets == {"", Secret}
\* the Authorization header of a request: "" when it is absent
Headers == {"", "Bearer s3cret", "Bearer wrong", "Bearer undefined"}
\* the limit query parameter of a manual request
LimitParams == {2, DEFAULT_LIMIT}

\* `Bearer ${process.env.CRON_SECRET}`
Bearer(secret) == IF secret = Secret THEN "Bearer s3cret" ELSE "Bearer undefined"

\* the documents a previous run left in the store
OldDeal == Spread(ProcessDeal(DealC2, StoreTime),
                  [batchTimestamp |-> StoreTime, lastUpdated |-> StoreTime,
                   fetchMethod |-> "cron"])
Stores == {EmptyStore, CommitBatch(EmptyStore, BuildBatch(<<OldDeal>>, StoreTime, <<>>))}

\* ------------------------------------------------------------ state
VARIABLES
  cronSecret,   \* process.env.CRON_SECRET
  store,        \* the gameDeals collection: document id -> document
  store0,       \* the collection as it was when the request arrived
  now,          \* the clock
  handler,      \* the handler serving the request, "" before it arrives
  authHeader,   \* the request's Authorization header
  limit,        \* the deals limit and the per-source RSS limit of the run
  pc,           \* "idle", "fetching", "committing", "done"
  task,         \* the fetches of the run: task -> [st, val]
  allDeals,     \* the list handed to saveDealsToDb
  batch,        \* the writes of the batch of saveDealsToDb
  response,     \* the response: [status, error]
  call          \* the last direct call of a library function: [fn, args, result]

vars == <<cronSecret, store, store0, now, handler, authHeader, limit, pc, task,
          allDeals, batch, response, call>>

Queries == <<"q1", "q2", "q3", "q4">>
RssSources == <<"humble", "epic">>
Tasks == Range(Queries) \cup Range(RssSources) \cup {"cs"}

\* A task is idle (not issued), pending, ok (its promise resolved from a 2xx
\* response), failed (its promise resolved to [] after a failure) or threw
\* (its promise rejected); val is what it resolved to and raw the payload
\* it received.
Idle == [st |-> "idle", val |-> <<>>, raw |-> <<>>]
Pending == [st |-> "pending", val |-> <<>>, raw |-> <<>>]
Settled(v, payload) == [st |-> "ok", val |-> v, raw |-> payload]
Failed == [st |-> "failed", val |-> <<>>, raw |-> <<>>]
Threw == [st |-> "threw", val |-> <<>>, raw |-> <<>>]

NoResponse == [status |-> 0, error |-> ""]
NoCall == [fn |-> "", args |-> <<>>, result |-> <<>>]

Init ==
  /\ cronSecret \in Secrets
  /\ store \in Stores
  /\ store0 = store
  /\ now = Today
  /\ handler = ""
  /\ authHeader = ""
  /\ limit = [deals |-> 0, rss |-> 0]
  /\ pc = "idle"
  /\ task = [t \in Tasks |-> Idle]
  /\ allDeals = <<>>
  /\ batch = <<>>
  /\ response = NoResponse
  /\ call = NoCall

\* ------------------------------------------------------------ handlers
\* Authorize without the comparison of the header
Authorize_secretOnly(secret, header) == IF secret = "" THEN 500 ELSE 0

\* Authorize without the test that the secret is configured
Authorize_compareOnly(secret, header) == IF header # Bearer(secret) THEN 401 ELSE 0

\* The credential check of POST (route.ts 104-122, part_012 399-417): the
\* status of the rejection, 0 when the request passes.
Authorize(secret, header) ==
  IF secret = "" THEN 500
  ELSE IF header # Bearer(secret) THEN 401
  ELSE 0

AuthError(status) ==
  IF status = 401 THEN "Unauthorized" ELSE "Server configuration error"

\* the deals requests a handler's fetchCheapSharkDeals issues
UsedQueries(h) == IF h = "routePOST" THEN {"q1"} ELSE Range(Queries)

\* what the handler's Promise.all waits for: fetchCheapSharkDeals ("cs") and
\* the two sources of fetchRSSFeeds
Awaited == {"cs"} \cup Range(RssSources)

\* The synchronous start of a run: every fetch is issued before the first
\* await returns.
StartRun(h, header, lim) ==
  /\ handler' = h
  /\ authHeader' = header
  /\ limit' = lim
  /\ pc' = "fetching"
  /\ task' = [t \in Tasks |->
               IF t \in UsedQueries(h) \cup Awaited THEN Pending ELSE Idle]
  /\ UNCHANGED <<call, cronSecret, store, store0, now, allDeals, batch, response>>

RejectRequest(h, header, status) ==
  /\ handler' = h
  /\ authHeader' = header
  /\ pc' = "done"
  /\ response' = [status |-> status, error |-> AuthError(status)]
  /\ UNCHANGED <<call, cronSecret, store, store0, now, limit, task, allDeals, batch>>

\* route.ts POST (line 100): cronLimit = 20, rssLimit = 10
POST_route(header) ==
  /\ pc = "idle"
  /\ IF Authorize(cronSecret, header) # 0
     THEN RejectRequest("routePOST", header, Authorize(cronSecret, header))
     ELSE StartRun("routePOST", header,
                   [deals |-> DEFAULT_LIMIT * 2, rss |-> DEFAULT_RSS_LIMIT * 2])

\* part_012 POST (line 395)
POST_p12(header) ==
  /\ pc = "idle"
  /\ IF Authorize(cronSecret, header) # 0
     THEN RejectRequest("p12POST", header, Authorize(cronSecret, header))
     ELSE StartRun("p12POST", header,
                   [deals |-> DEFAULT_LIMIT * 2, rss |-> DEFAULT_RSS_LIMIT * 2])

\* part_012 GET (line 308): rssLimit = Math.floor(limit / 2) || DEFAULT_RSS_LIMIT
GET_p12(lim) ==
  /\ pc = "idle"
  /\ StartRun("p12GET", "",
              [deals |-> lim,
               rss |-> IF lim \div 2 = 0 THEN DEFAULT_RSS_LIMIT ELSE lim \div 2])

\* ------------------------------------------------------------ fetches
QueriesDone(h, tk) == \A q \in UsedQueries(h) : tk[q].st \in {"ok", "failed"}

\* The promise of fetchCheapSharkDeals once its requests have settled.
\* route.ts (212-257) has no try: a failed request rejects it.  part_012
\* (32-114): fetchDealsWithParams turned every failure into [].
AdapterResult(h, tk, lim, t) ==
  IF h = "routePOST"
  THEN IF tk["q1"].st = "failed" THEN Threw
       ELSE Settled(FetchCheapSharkDeals_route(tk["q1"].val, CRON_MIN_SAVINGS),
                    tk["q1"].val)
  ELSE Settled(FetchCheapSharkDeals_p12(
                 [i \in 1..Len(Queries) |-> tk[Queries[i]].val], lim, t),
               Flat([i \in 1..Len(Queries) |-> tk[Queries[i]].val]))

WithAdapter(h, tk, lim, t) ==
  IF QueriesDone(h, tk) THEN [tk EXCEPT !["cs"] = AdapterResult(h, tk, lim, t)]
  ELSE tk

\* a deals request answers 2xx with a JSON array
SettleQuery(q, payload) ==
  /\ pc = "fetching"
  /\ task[q] = Pending
  /\ task' = WithAdapter(handler, [task EXCEPT ![q] = Settled(payload, payload)],
                         limit.deals, now)
  /\ UNCHANGED <<call, cronSecret, store, store0, now, handler, authHeader, limit, pc,
                 allDeals, batch, response>>

\* a deals request fails
FailQuery(q, kind) ==
  /\ pc = "fetching"
  /\ task[q] = Pending
  /\ kind \in Failures
  /\ task' = WithAdapter(handler, [task EXCEPT ![q] = Failed], limit.deals, now)
  /\ UNCHANGED <<call, cronSecret, store, store0, now, handler, authHeader, limit, pc,
                 allDeals, batch, response>>

\* rss.ts fetchRSSFeeds, one source (82-117): parse, then slice(0, limit)
SettleHumble(items) ==
  /\ pc = "fetching"
  /\ task["humble"] = Pending
  /\ task' = [task EXCEPT
               !["humble"] = Settled(Take(ParseHumbleFeed(items, now), limit.rss), items)]
  /\ UNCHANGED <<call, cronSecret, store, store0, now, handler, authHeader, limit, pc,
                 allDeals, batch, response>>

SettleEpic(elements) ==
  /\ pc = "fetching"
  /\ task["epic"] = Pending
  /\ task' = [task EXCEPT
               !["epic"] = Settled(Take(ParseEpicGamesFeed(elements, now), limit.rss),
                                   elements)]
  /\ UNCHANGED <<call, cronSecret, store, store0, now, handler, authHeader, limit, pc,
                 allDeals, batch, response>>

\* rss.ts 92-95 and 113-116: every failure of a source gives []
FailRss(src, kind) ==
  /\ pc = "fetching"
  /\ task[src] = Pending
  /\ kind \in Failures
  /\ task' = [task EXCEPT ![src] = Failed]
  /\ UNCHANGED <<call, cronSecret, store, store0, now, handler, authHeader, limit, pc,
                 allDeals, batch, response>>

\* ------------------------------------------------------------ aggregation
Respond(status, error) ==
  /\ pc' = "done"
  /\ response' = [status |-> status, error |-> error]

\* Promise.all rejects as soon as fetchCheapSharkDeals does; the catch block
\* of the handler answers 500 (route.ts 193-199).
Reject ==
  /\ pc = "fetching"
  /\ task["cs"].st = "threw"
  /\ Respond(500, "Cron job failed")
  /\ UNCHANGED <<call, cronSecret, store, store0, now, handler, authHeader, limit, task,
                 allDeals, batch>>

\* AllSettled waiting for fetchCheapSharkDeals only
AllSettled_csOnly(tk) == tk["cs"].st \in {"ok", "failed"}

AllSettled(tk) == \A t \in Awaited : tk[t].st \in {"ok", "failed"}

\* cheapSharkDeals.map(processDeal) of route.ts throws when processDeal does
MapThrows(h, tk) ==
  /\ h = "routePOST"
  /\ \E i \in 1..Len(tk["cs"].val) : ProcessDealThrows(tk["cs"].val[i])

CheapSharkDeals(h, tk, t) ==
  IF h = "routePOST"
  THEN [i \in 1..Len(tk["cs"].val) |-> ProcessDeal(tk["cs"].val[i], t)]
  ELSE tk["cs"].val

\* RssDeals with the sources in the opposite order
RssDeals_reversed(tk) ==
  Flat([i \in 1..Len(RssSources) |-> tk[RssSources[Len(RssSources) + 1 - i]].val])

\* results.flat() of fetchRSSFeeds, in the order of RSS_SOURCES
RssDeals(tk) == Flat([i \in 1..Len(RssSources) |-> tk[RssSources[i]].val])

\* MergeDeals without the sort
MergeDeals_unsorted(cheap, rss) == cheap \o rss

\* [...cheapSharkDeals, ...rssDeals].sort(by datePosted, newest first)
MergeDeals(cheap, rss) == SortByDate(cheap \o rss)

BatchInfo(h, t) ==
  IF h = "p12GET" THEN [batchTimestamp |-> t, lastUpdated |-> t]
  ELSE [batchTimestamp |-> t, lastUpdated |-> t, fetchMethod |-> "cron"]

\* dealsWithBatchInfo: the list the handler hands to saveDealsToDb
FinalList(h, tk, t) ==
  WithBatchInfo(MergeDeals(CheapSharkDeals(h, tk, t), RssDeals(tk)), BatchInfo(h, t))

\* The handler after Promise.all resolves, up to `await batch.commit()` in
\* saveDealsToDb.
Aggregate ==
  /\ pc = "fetching"
  /\ AllSettled(task)
  /\ IF MapThrows(handler, task)
     THEN /\ Respond(500, "Cron job failed")
          /\ UNCHANGED <<allDeals, batch>>
     ELSE \E dealsWithBatchInfo \in {FinalList(handler, task, now)} :
            /\ allDeals' = dealsWithBatchInfo
            /\ batch' \in Batches(dealsWithBatchInfo, now)
            /\ pc' = "committing"
            /\ UNCHANGED response
  /\ UNCHANGED <<call, cronSecret, store, store0, now, handler, authHeader, limit, task>>

\* batch.commit() resolves: saveDealsToDb returns true, the handler answers 200
CommitOk ==
  /\ pc = "committing"
  /\ store' = CommitBatch(store, batch)
  /\ Respond(200, "")
  /\ UNCHANGED <<call, cronSecret, store0, now, handler, authHeader, limit, task,
                 allDeals, batch>>

\* CommitFail after a first document was written on its own
CommitFail_partial ==
  /\ pc = "committing"
  /\ store' = IF batch = <<>> THEN store ELSE SetMerge(store, Head(batch))
  /\ Respond(500, "Database storage error")
  /\ UNCHANGED <<call, cronSecret, store0, now, handler, authHeader, limit, task,
                 allDeals, batch>>

\* batch.commit() rejects: saveDealsToDb returns false, the handler answers 500
CommitFail ==
  /\ pc = "committing"
  /\ Respond(500, "Database storage error")
  /\ UNCHANGED <<call, cronSecret, store, store0, now, handler, authHeader, limit, task,
                 allDeals, batch>>

\* The clock advances.  It is read only while the run fetches and
\* aggregates.
Tick ==
  /\ pc = "fetching"
  /\ now < MaxNow
  /\ now' = now + 1
  /\ UNCHANGED <<call, cronSecret, store, store0, handler, authHeader, limit, pc, task,
                 allDeals, batch, response>>

Next ==
  \/ \E header \in Headers : POST_route(header)
  \/ \E header \in Headers : POST_p12(header)
  \/ \E lim \in LimitParams : GET_p12(lim)
  \/ \E q \in Range(Queries) : \E payload \in CSPayloads(q) : SettleQuery(q, payload)
  \/ \E q \in Range(Queries), kind \in Failures : FailQuery(q, kind)
  \/ \E items \in HumbleFeeds : SettleHumble(items)
  \/ \E elements \in EpicCatalogs : SettleEpic(elements)
  \/ \E src \in Range(RssSources), kind \in Failures : FailRss(src, kind)
  \/ Reject
  \/ Aggregate
  \/ CommitOk
  \/ CommitFail
  \/ Tick

Spec == Init /\ [][Next]_vars

\* The event loop runs a continuation whose promise has settled, and the
\* store answers a commit.  Nothing obliges a remote server to answer a
\* fetch: no fetch of the code carries a signal or a timeout.
FairSpec ==
  /\ Spec
  /\ WF_vars(Reject)
  /\ WF_vars(Aggregate)
  /\ WF_vars(CommitOk \/ CommitFail)

\* ------------------------------------------------------------ stores
\* A URL or URL pattern is the sequence of its parts; "{gameId}", "{dealID}"
\* and "{affiliateCode}" are the placeholders of a pattern.
RedirectBase == "https://www.cheapshark.com/redirect?dealID="
RedirectPattern == <<RedirectBase, "{dealID}">>

\* `https://www.cheapshark.com/redirect?dealID=${dealId}`
Redirect(dealId) == <<RedirectBase, dealId>>

\* String.prototype.replace(token, value): the first occurrence only
RECURSIVE ReplaceFirst(_, _, _)
ReplaceFirst(url, token, value) ==
  IF url = <<>> THEN <<>>
  ELSE IF Head(url) = token THEN <<value>> \o Tail(url)
       ELSE <<Head(url)>> \o ReplaceFirst(Tail(url), token, value)

\* a configuration with the four mandatory fields
Config(n, pattern, reqDeal, direct) ==
  [name |-> n, affiliateUrlPattern |-> pattern, requiresDealId |-> reqDeal,
   isDirectLink |-> direct]

\* a configuration of part_007 with its optional fields
AffiliateConfig(n, pattern, reqDeal, reqStore, direct, param, code) ==
  Spread(Config(n, pattern, reqDeal, direct),
         [requiresStoreId |-> reqStore, affiliateParam |-> param,
          affiliateCode |-> code])

\* a configuration of rss.ts 601-638
RssConfig(n, pattern, reqDeal, reqStore, direct) ==
  Spread(Config(n, pattern, reqDeal, direct), [requiresStoreId |-> reqStore])

\* config.field, undefined read as dflt
Get(config, field, dflt) == IF field \in DOMAIN config THEN config[field] ELSE dflt

\* part_007 STORE_CONFIGS
STORE_CONFIGS ==
  [s \in {"1", "2", "3", "4", "5", "6", "7", "8", "9", "10", "11"} |->
    CASE s = "1" -> AffiliateConfig("Steam",
           <<"https://store.steampowered.com/app/", "{gameId}", "?curator_clanid=",
             "{affiliateCode}">>, FALSE, FALSE, TRUE, "curator_clanid", "38030065")
      [] s = "2" -> AffiliateConfig("GOG",
           <<"https://www.gog.com/en/game/", "{gameId}", "?pp=", "{affiliateCode}">>,
           FALSE, FALSE, TRUE, "pp", "a_aid_123")
      [] s \in {"3", "7"} -> AffiliateConfig("GreenManGaming",
           <<"https://www.greenmangaming.com/games/", "{gameId}", "?tap_a=",
             "{affiliateCode}">>, TRUE, TRUE, FALSE, "tap_a", "affiliate_123")
      [] s = "4" -> AffiliateConfig("Humble Store",
           <<"https://www.humblebundle.com/store/", "{gameId}", "?partner=",
             "{affiliateCode}">>, FALSE, FALSE, TRUE, "partner", "dailygamedrops")
      [] s = "5" -> AffiliateConfig("Fanatical",
           <<"https://www.fanatical.com/en/game/", "{gameId}", "?aff=",
             "{affiliateCode}">>, TRUE, TRUE, FALSE, "aff", "dailygamedrops")
      [] s = "6" -> AffiliateConfig("GamersGate",
           <<"https://www.gamersgate.com/product/", "{gameId}", "/?aff=",
             "{affiliateCode}">>, TRUE, FALSE, FALSE, "aff", "dailygamedrops")
      [] s = "8" -> AffiliateConfig("GameBillet",
           <<"https://www.gamebillet.com/", "{gameId}", "?affiliate=",
             "{affiliateCode}">>, TRUE, FALSE, FALSE, "affiliate", "dailygamedrops")
      [] s = "9" -> AffiliateConfig("Epic Games Store",
           <<"https://store.epicgames.com/en-US/p/", "{gameId}", "?epic_affiliate=",
             "{affiliateCode}">>, FALSE, FALSE, TRUE, "epic_affiliate",
           "dailygamedrops_id")
      [] s = "10" -> AffiliateConfig("WinGameStore",
           <<"https://www.wingamestore.com/product/", "{gameId}", "/?afid=",
             "{affiliateCode}">>, TRUE, FALSE, FALSE, "afid", "dailygamedrops")
      [] s = "11" -> AffiliateConfig("GamesPlanet",
           <<"https://us.gamesplanet.com/game/", "{gameId}", "?ref=",
             "{affiliateCode}">>, TRUE, FALSE, FALSE, "ref", "dailygamedrops")]

\* rss.ts STORE_CONFIGS
STORE_CONFIGS_rss ==
  [s \in {"1", "2", "3", "4", "5"} |->
    CASE s = "1" -> RssConfig("Steam",
           <<"https://store.steampowered.com/app/", "{gameId}">>, FALSE, FALSE, TRUE)
      [] s = "2" -> RssConfig("GOG",
           <<"https://www.gog.com/game/", "{gameId}">>, FALSE, FALSE, TRUE)
      [] s = "3" -> RssConfig("GreenManGaming",
           <<"https://www.greenmangaming.com/games/", "{gameId}">>, TRUE, TRUE, FALSE)
      [] s = "4" -> RssConfig("Humble Store",
           <<"https://www.humblebundle.com/store/", "{gameId}">>, FALSE, FALSE, TRUE)
      [] s = "5" -> RssConfig("Fanatical",
           <<"https://www.fanatical.com/en/game/", "{gameId}">>, TRUE, TRUE, FALSE)]

\* part_010 defaultStoreConfig, and the literal of part_007 146-151
defaultStoreConfig == Config("Unknown Store", RedirectPattern, TRUE, FALSE)

\* part_010 storeConfigs
storeConfigs ==
  [s \in {"1", "2", "3", "4", "5", "6", "7", "8", "9", "10", "11", "12", "13"} |->
    IF s = "1"
    THEN Config("Steam", <<"https://store.steampowered.com/app/", "{gameId}">>,
                FALSE, TRUE)
    ELSE Config(CASE s = "2" -> "GamersGate" [] s = "3" -> "GreenManGaming"
                  [] s = "4" -> "Amazon" [] s = "5" -> "GameStop"
                  [] s = "6" -> "Direct2Drive" [] s = "7" -> "GOG"
                  [] s = "8" -> "Origin" [] s = "9" -> "Humble Store"
                  [] s = "10" -> "Uplay" [] s = "11" -> "Fanatical"
                  [] s = "12" -> "Epic Games Store" [] s = "13" -> "WinGameStore",
                RedirectPattern, TRUE, FALSE)]

\* part_013 storeMap, for the ids the calls use
storeMap ==
  [s \in {"1", "2", "3", "4", "9", "12", "25"} |->
    CASE s = "1" -> "Steam" [] s = "2" -> "GamersGate" [] s = "3" -> "GreenManGaming"
      [] s = "4" -> "Amazon" [] s = "9" -> "Get Games" [] s = "12" -> "Desura"
      [] s = "25" -> "Epic Games Store"]

\* String(storeId).trim()
Trim(storeId) == IF storeId = " 1 " THEN "1" ELSE storeId

\* part_007 detectStore
DetectStore(storeId) ==
  IF storeId \in DOMAIN STORE_CONFIGS THEN STORE_CONFIGS[storeId]
  ELSE defaultStoreConfig

\* part_010 detectStore
DetectStore_p10(storeId) ==
  IF storeId = "" THEN defaultStoreConfig
  ELSE IF Trim(storeId) \in DOMAIN storeConfigs THEN storeConfigs[Trim(storeId)]
       ELSE defaultStoreConfig

\* part_013 detectStore
DetectStore_p13(storeId) ==
  Config(IF storeId \in DOMAIN storeMap THEN storeMap[storeId] ELSE "Game Store",
         RedirectPattern, TRUE, FALSE)

\* `{${storeConfig.affiliateParam}}`
Braced(param) ==
  CASE param = "curator_clanid" -> "{curator_clanid}" [] param = "pp" -> "{pp}"
    [] param = "tap_a" -> "{tap_a}" [] param = "partner" -> "{partner}"
    [] param = "aff" -> "{aff}" [] param = "affiliate" -> "{affiliate}"
    [] param = "epic_affiliate" -> "{epic_affiliate}" [] param = "afid" -> "{afid}"
    [] param = "ref" -> "{ref}"

\* the direct link of part_007 193-203
DirectLink(config, gameId) ==
  LET url == ReplaceFirst(config.affiliateUrlPattern, "{gameId}", gameId)
      param == Get(config, "affiliateParam", "")
      code == Get(config, "affiliateCode", "")
  IN IF param # "" /\ code # ""
     THEN ReplaceFirst(ReplaceFirst(url, Braced(param), param), "{affiliateCode}", code)
     ELSE url

\* generateAffiliateUrl substituting the gameId whenever the store is direct
GenerateAffiliateUrl_anyGameId(dealId, storeId, gameId) ==
  IF DetectStore(storeId).isDirectLink THEN DirectLink(DetectStore(storeId), gameId)
  ELSE Redirect(dealId)

\* part_007 generateAffiliateUrl(dealId, storeId, gameId)
GenerateAffiliateUrl(dealId, storeId, gameId) ==
  LET storeConfig == DetectStore(storeId)
  IN IF \/ storeConfig.requiresDealId /\ dealId = ""
        \/ Get(storeConfig, "requiresStoreId", FALSE) /\ storeId = ""
     THEN Redirect(dealId)
     ELSE IF storeConfig.isDirectLink /\ gameId # ""
          THEN DirectLink(storeConfig, gameId)
          ELSE Redirect(dealId)

\* rss.ts 648-669 generateAffiliateUrl(dealId, storeId, gameId)
GenerateAffiliateUrl_rss(dealId, storeId, gameId) ==
  IF storeId \notin DOMAIN STORE_CONFIGS_rss THEN Redirect(dealId)
  ELSE LET storeConfig == STORE_CONFIGS_rss[storeId]
       IN IF \/ storeConfig.requiresDealId /\ dealId = ""
             \/ storeConfig.requiresStoreId /\ storeId = ""
          THEN Redirect(dealId)
          ELSE IF storeConfig.isDirectLink /\ gameId # ""
               THEN ReplaceFirst(storeConfig.affiliateUrlPattern, "{gameId}", gameId)
               ELSE Redirect(dealId)

\* ------------------------------------------------------------ direct calls
\* the arguments of the calls
StoreIdArgs == {"", "1", " 1 ", "2", "3", "4", "9", "12", "25", "99"}
DealIdArgs == {"", "d1"}
GameIdArgs == {"", "440", "celeste"}

Returns(fn, args, result) ==
  /\ call' = [fn |-> fn, args |-> args, result |-> result]
  /\ UNCHANGED <<cronSecret, store, store0, now, handler, authHeader, limit, pc,
                 task, allDeals, batch, response>>

CallDetectStore ==
  \E s \in StoreIdArgs : Returns("detectStore", <<s>>, DetectStore(s))

CallDetectStore_p10 ==
  \E s \in StoreIdArgs : Returns("detectStore_p10", <<s>>, DetectStore_p10(s))

CallDetectStore_p13 ==
  \E s \in StoreIdArgs : Returns("detectStore_p13", <<s>>, DetectStore_p13(s))

CallGenerateAffiliateUrl ==
  \E d \in DealIdArgs, s \in StoreIdArgs, g \in GameIdArgs :
    Returns("generateAffiliateUrl", <<d, s, g>>, GenerateAffiliateUrl(d, s, g))

CallGenerateAffiliateUrl_rss ==
  \E d \in DealIdArgs, s \in StoreIdArgs, g \in GameIdArgs :
    Returns("generateAffiliateUrl_rss", <<d, s, g>>, GenerateAffiliateUrl_rss(d, s, g))

\* deals as a caller of saveDealsToDb may pass them: Partial<GameDealFromAPI>
Partial(deal, fields) == [f \in fields |-> deal[f]]

HumbleA == ParseHumbleItem(ItemA, Today)
HumbleA2 == ParseHumbleItem(ItemA2, Today)
EpicG == ParseEpicGame(GameG, Today)
CheapC == TransformDealToAppFormat(DealC, Today)

SaveArgs ==
  {<<HumbleA, CheapC>>,
   <<HumbleA2, EpicG>>,
   <<Partial(HumbleA, DOMAIN HumbleA \ {"dealID"}), EpicG>>,
   <<Partial(CheapC, {"title", "savings"}), Partial(HumbleA, {"title", "dealPrice"})>>,
   <<Partial(EpicG, {"dealID", "title", "imageUrl"})>>,
   <<Partial(CheapC, {"dealID", "title", "savings", "expiryDate"} \cap DOMAIN CheapC)>>}

\* saveDealsToDb(deals) called directly; ok is whether batch.commit() resolves
CallSaveDealsToDb ==
  \E deals \in SaveArgs, ok \in BOOLEAN :
    /\ now < MaxNow
    /\ now' = now + 1
    /\ allDeals' = deals
    /\ batch' \in Batches(deals, now')
    /\ store' = IF ok THEN CommitBatch(store, batch') ELSE store
    /\ call' = [fn |-> "saveDealsToDb", args |-> <<deals>>, result |-> ok]
    /\ UNCHANGED <<cronSecret, store0, handler, authHeader, limit, pc, task, response>>

\* a free-to-play title: no price, nothing saved
DealZ == RawDeal("d7", 107, "Zup", TRUE, 0, 0, Percent(0), "z.jpg")
\* savings "80.123456"
DealQ == RawDeal("d8", 108, "Quern", TRUE, 2500, 497, Percent(80) + 12, "q.jpg")
\* records of the provider that lack normalPrice, salePrice, savings
DealM == RawDeal("d9", 109, "Kona", TRUE, Undefined, 500, Percent(80), "k.jpg")
DealM2 == RawDeal("d10", 110, "Eve", TRUE, 2500, Undefined, Percent(80), "e.jpg")
DealS == RawDeal("d11", 111, "Gris", TRUE, 2500, 500, Undefined, "g.jpg")

RawDealArgs == {DealC, DealF, DealX, DealZ, DealQ, DealM, DealM2, DealS}

\* an item whose "now $15.00" is above the "$10.00" matched first
ItemN == HumbleItem("g5", "Nidhogg", FALSE, TRUE, 1000, 1500, Today, "n.jpg", "")

HumbleFeedArgs == HumbleFeeds \cup {<<ItemN, ItemS>>}

\* the call threw
Thrown == [threw |-> TRUE]

CallProcessDeal ==
  \E deal \in RawDealArgs :
    Returns("processDeal", <<deal>>,
            IF ProcessDealThrows(deal) THEN Thrown ELSE ProcessDeal(deal, now))

CallTransformDealToAppFormat ==
  \E deal \in RawDealArgs :
    Returns("transformDealToAppFormat", <<deal>>,
            IF TransformThrows(deal) THEN Thrown
            ELSE TransformDealToAppFormat(deal, now))

CallParseHumbleFeed ==
  \E items \in HumbleFeedArgs :
    Returns("parseHumbleFeed", <<items>>, ParseHumbleFeed(items, now))

CallParseEpicGamesFeed ==
  \E elements \in EpicCatalogs :
    Returns("parseEpicGamesFeed", <<elements>>, ParseEpicGamesFeed(elements, now))

\* n times the character c
Pad(c, n) == [i \in 1..n |-> c]

SlugAlphabet == {"A", "b", "7", " ", "-"}
\* the strings of at most n characters of the alphabet
Strings(n) == UNION {[1..k -> SlugAlphabet] : k \in 0..n}

MaxTitleLen == 3
MaxTailLen == 2
\* short titles, and titles around the length at which the slug is cut
TitleArgs ==
  Strings(MaxTitleLen)
    \cup {Pad("a", n) \o t : n \in {SLUG_MAX - 2, SLUG_MAX - 1, SLUG_MAX},
                             t \in Strings(MaxTailLen)}
GameIdChars == {<<>>, <<"4", "4", "0">>}

CallGenerateSlug ==
  \E title \in TitleArgs :
    Returns("generateSlug", <<title>>, GenerateSlug(title, now))

CallGenerateSlug_p12 ==
  \E title \in TitleArgs, gameId \in GameIdChars :
    Returns("generateSlug_p12", <<title, gameId>>, GenerateSlug_p12(title, gameId))

CallRssSlug ==
  \E title \in TitleArgs : Returns("rssSlug", <<title>>, RssSlug(title))

\* the last call made a slug
SlugMade == call.fn \in {"generateSlug", "generateSlug_p12", "rssSlug"}

\* lowercase runs of [a-z0-9] separated by single hyphens, no hyphen at
\* either end
WellFormedSlug(slug) ==
  /\ \A i \in 1..Len(slug) : IsAlnum(slug[i]) \/ slug[i] = "-"
  /\ slug # <<>> => slug[1] # "-" /\ slug[Len(slug)] # "-"
  /\ \A i \in 1..(Len(slug) - 1) : ~(slug[i] = "-" /\ slug[i + 1] = "-")

\* payloads of one or two records that have their price fields
FilterArgs ==
  LET deals == {DealC, DealF, DealL, DealN, DealZ, DealQ}
  IN {<<d>> : d \in deals} \cup {<<d, e>> : d \in deals, e \in deals}

\* the minSavings argument: none, the default, the one of the cron trigger
MinSavingsArgs == {0, MIN_SAVINGS_PERCENT, CRON_MIN_SAVINGS}

\* route.ts fetchCheapSharkDeals(limit, minSavings) when the provider answers
\* with the payload
CallFetchCheapSharkDeals_route ==
  \E deals \in FilterArgs, minSavings \in MinSavingsArgs :
    Returns("fetchCheapSharkDeals_route", <<deals, minSavings>>,
            FetchCheapSharkDeals_route(deals, minSavings))

\* the quality filters of part_012 fetchCheapSharkDeals on the deals it merged
CallQualityFilter ==
  \E deals \in FilterArgs :
    Returns("qualityFilter", <<deals>>, QualityFilter(deals))

\* the last call filtered raw deals by their savings
Filtered == call.fn \in {"fetchCheapSharkDeals_route", "qualityFilter"}

\* the threshold the last filtering call applied
Threshold ==
  IF call.fn = "fetchCheapSharkDeals_route" THEN call.args[2]
  ELSE MIN_SAVINGS_PERCENT

\* For addTrackingParameters a URL is cut so that "?" and "&" are parts of
\* their own.  url.includes('?')
HasQuery(url) == \E i \in 1..Len(url) : url[i] = "?"

\* part_007 and affiliate-client.ts addTrackingParameters(url, source)
AddTrackingParameters(url, source) ==
  url \o <<(IF HasQuery(url) THEN "&" ELSE "?"), "utm_source=dailygamedrops",
           "&", "utm_medium=affiliate", "&", "utm_campaign=", source>>

\* the number of parts of url equal to part
Occurrences(url, part) == Cardinality({i \in 1..Len(url) : url[i] = part})

UrlArgs ==
  {<<"https://store.steampowered.com/app/440">>,
   <<"https://www.cheapshark.com/redirect", "?", "dealID=d1">>,
   <<"https://www.humblebundle.com/store/celeste", "?", "partner=dgd", "&", "hl=en">>,
   <<>>}
SourceArgs == {"homepage", "deal_page"}
\* how many times the parameters are added to one URL
MaxApplied == 3

\* addTrackingParameters on a URL of the inputs or on the URL the last call
\* returned
CallAddTrackingParameters ==
  \E url \in UrlArgs \cup (IF call.fn = "addTrackingParameters"
                               /\ Occurrences(call.result, "utm_source=dailygamedrops")
                                    < MaxApplied
                            THEN {call.result} ELSE {}),
     source \in SourceArgs :
    Returns("addTrackingParameters", <<url, source>>,
            AddTrackingParameters(url, source))

\* url is what addTrackingParameters returns for source on a URL of the inputs
Tracked(url, source) == \E u \in UrlArgs : url = AddTrackingParameters(u, source)

\* the deals the last call of an adapter function produced
Produced ==
  IF call.fn \in {"processDeal", "transformDealToAppFormat"}
  THEN (IF call.result = Thrown THEN <<>> ELSE <<call.result>>)
  ELSE IF call.fn \in {"parseHumbleFeed", "parseEpicGamesFeed"} THEN call.result
  ELSE <<>>

\* the provider's record has its three price fields
Complete(deal) ==
  /\ deal.normalPrice # Undefined
  /\ deal.salePrice # Undefined
  /\ deal.savings # Undefined

\* the deals the last call produced from records that have every price field
ProducedFromComplete ==
  IF call.fn \in {"processDeal", "transformDealToAppFormat"}
       /\ ~Complete(call.args[1])
  THEN <<>> ELSE Produced

\* no request is served while the library is called directly
LibInit ==
  /\ cronSecret = Secret
  /\ store \in Stores
  /\ store0 = store
  /\ now = Today
  /\ handler = ""
  /\ authHeader = ""
  /\ limit = [deals |-> 0, rss |-> 0]
  /\ pc = "idle"
  /\ task = [t \in Tasks |-> Idle]
  /\ allDeals = <<>>
  /\ batch = <<>>
  /\ response = NoResponse
  /\ call = NoCall

LibNext ==
  \/ CallDetectStore
  \/ CallDetectStore_p10
  \/ CallDetectStore_p13
  \/ CallGenerateAffiliateUrl
  \/ CallGenerateAffiliateUrl_rss
  \/ CallSaveDealsToDb
  \/ CallProcessDeal
  \/ CallTransformDealToAppFormat
  \/ CallParseHumbleFeed
  \/ CallParseEpicGamesFeed

LibSpec == LibInit /\ [][LibNext]_vars

\* the instants after MaxNow at which a list is delivered again
MaxLater == 1

\* saveDealsToDb called again with the list of the last call.  new Date() is
\* read in milliseconds: it gives the instant of the last call or a later one.
CallSaveDealsToDbAgain ==
  /\ call.fn = "saveDealsToDb"
  /\ \E ok \in BOOLEAN, t \in {now, now + 1} :
       /\ t <= MaxNow + MaxLater
       /\ now' = t
       /\ allDeals' = call.args[1]
       /\ batch' \in Batches(call.args[1], t)
       /\ store' = IF ok THEN CommitBatch(store, batch') ELSE store
       /\ call' = [fn |-> "saveDealsToDb", args |-> call.args, result |-> ok,
                   redelivery |-> TRUE]
  /\ UNCHANGED <<cronSecret, store0, handler, authHeader, limit, pc, task, response>>

SaveNext ==
  \/ CallSaveDealsToDb
  \/ CallSaveDealsToDbAgain

\* deliveries and re-deliveries of lists of deals to the store
SaveSpec == LibInit /\ [][SaveNext]_vars

\* the identifier a deal carries: its dealID, or its id
Key(deal) == IF Has(deal, "dealID") THEN deal.dealID ELSE deal.id
Keys(deals) == {Key(deals[i]) : i \in 1..Len(deals)}
AllIdentified(deals) ==
  \A i \in 1..Len(deals) : Has(deals[i], "dealID") \/ Has(deals[i], "id")

\* the last call delivered the list of the call before it again
Redelivered == call.fn = "saveDealsToDb" /\ "redelivery" \in DOMAIN call

\* direct calls of the functions that neither read nor write the store
PureNext ==
  \/ CallGenerateSlug
  \/ CallGenerateSlug_p12
  \/ CallRssSlug
  \/ CallFetchCheapSharkDeals_route
  \/ CallQualityFilter
  \/ CallAddTrackingParameters

PureSpec == LibInit /\ [][PureNext]_vars

\* ------------------------------------------------------------ properties
PostHandlers == {"routePOST", "p12POST"}
P12Handlers == {"p12POST", "p12GET"}

\* the run reached saveDealsToDb
Aggregated ==
  \/ pc = "committing"
  \/ pc = "done" /\ response.error \in {"", "Database storage error"}

DocIds(writes) == {writes[i].docId : i \in 1..Len(writes)}
DealIds(deals) == {deals[i].id : i \in 1..Len(deals)}

\* C1: a POST whose Authorization header is absent or differs from
\* "Bearer " + the configured secret is answered 401, and in that invocation
\* no fetch is issued and nothing is written to the store.
C1_UnauthorizedRejected ==
  (handler \in PostHandlers /\ cronSecret # "" /\ authHeader # Bearer(cronSecret))
    => /\ pc = "done"
       /\ response.status = 401
       /\ \A t \in Tasks : task[t] = Idle
       /\ batch = <<>>
       /\ store = store0

C1_Witness ==
  /\ handler = "routePOST"
  /\ cronSecret = Secret
  /\ authHeader = "Bearer wrong"
  /\ response.status = 401

\* C2: when one adapter fails and the two others succeed, the deals of the
\* others are written to the store in that run (unless the commit itself
\* fails, or an item of a payload is malformed).
AdapterFailed(a) ==
  IF a = "cs" THEN \E q \in UsedQueries(handler) : task[q].st = "failed"
  ELSE task[a].st = "failed"

AdapterSucceeded(a) ==
  IF a = "cs" THEN \A q \in UsedQueries(handler) : task[q].st = "ok"
  ELSE task[a].st = "ok"

C2_FailureIsolated ==
  \A a \in Awaited :
    (/\ pc = "done"
     /\ response.error # "Database storage error"
     /\ AdapterFailed(a)
     /\ \A b \in Awaited \ {a} : AdapterSucceeded(b)
     /\ ~MapThrows(handler, task))
      => \A b \in Awaited \ {a} :
           \A i \in 1..Len(task[b].val) :
             /\ Len(batch) > 0
             /\ task[b].val[i].dealID \in DOMAIN store
             /\ store[task[b].val[i].dealID].batchId = batch[1].data.batchId

\* C3: a run that ends in failure leaves the store as it was when the run
\* began and answers with an error.
C3_FailedRunLeavesStore ==
  /\ (pc = "done" /\ response.status # 200) => store = store0
  /\ (pc = "done" /\ (task["cs"].st = "threw" \/ MapThrows(handler, task)))
       => response.status = 500
  /\ (pc = "done" /\ Len(batch) > 0 /\ response.status = 200)
       => DocIds(batch) \subseteq DOMAIN store

C3_Witness ==
  /\ pc = "done"
  /\ response.error = "Database storage error"
  /\ store0 # EmptyStore
  /\ DocIds(batch) \cap DOMAIN store0 # {}
  /\ DocIds(batch) \ DOMAIN store0 # {}

\* C4: at every moment the store holds either none or all of the documents
\* of the batch of the running saveDealsToDb.
C4_BatchAtomic ==
  LET seen == {d \in DocIds(batch) \cap DOMAIN store :
                 store[d].batchId = batch[1].data.batchId}
  IN seen = {} \/ seen = DocIds(batch)

C4_Witness ==
  /\ pc = "done"
  /\ response.status = 200
  /\ Cardinality(DocIds(batch)) >= 2
  /\ \A d \in DocIds(batch) : store[d].batchId = batch[1].data.batchId

\* C5: in the concatenation of the query results, of the raw deals sharing
\* a dealID exactly one is in the deduplicated list, and it is the last of
\* them in concatenation order.
C5_LastWins ==
  (handler \in P12Handlers /\ task["cs"].st = "ok")
    => LET input == task["cs"].raw
           out == DedupByDealID(input)
       IN \A i \in 1..Len(input) :
            LET same == {j \in 1..Len(input) : input[j].dealID = input[i].dealID}
                last == CHOOSE j \in same : \A k \in same : k <= j
                kept == {k \in 1..Len(out) : out[k].dealID = input[i].dealID}
            IN /\ Cardinality(kept) = 1
               /\ \A k \in kept : out[k] = input[last]

C5_Witness ==
  /\ handler \in P12Handlers
  /\ task["cs"].st = "ok"
  /\ \E i, j \in 1..Len(task["cs"].raw) :
       /\ i < j
       /\ task["cs"].raw[i].dealID = task["cs"].raw[j].dealID
       /\ task["cs"].raw[i] # task["cs"].raw[j]

\* C6: the list handed to saveDealsToDb holds no two deals with the same id.
C6_UniqueIds ==
  \A i, j \in 1..Len(allDeals) : i # j => allDeals[i].id # allDeals[j].id

\* C7: a malformed item of a payload is dropped and every well-formed item
\* of that payload is in the final list (when the source limit does not cut
\* the payload).
C7_ItemDropped ==
  Aggregated =>
    /\ (task["humble"].st = "ok" /\ Len(task["humble"].raw) <= limit.rss)
         => \A i \in 1..Len(task["humble"].raw) :
              ~HumbleItemThrows(task["humble"].raw[i])
                => Id(<<>>, task["humble"].raw[i].guid) \in DealIds(allDeals)
    /\ (task["epic"].st = "ok" /\ Len(task["epic"].raw) <= limit.rss)
         => \A i \in 1..Len(task["epic"].raw) :
              (EpicQualifies(task["epic"].raw[i]) /\ ~EpicGameThrows(task["epic"].raw[i]))
                => Id(<<>>, task["epic"].raw[i].id) \in DealIds(allDeals)

\* C8: when a single fetch of the run is outstanding, the run still
\* completes: the fetch answers or is cut off by a timeout.
OneOutstanding ==
  /\ pc = "fetching"
  /\ Cardinality({t \in Tasks \ {"cs"} : task[t].st = "pending"}) = 1

C8_RunCompletes == OneOutstanding ~> (pc = "done")

\* C9: every deal of the list handed to saveDealsToDb has an image and is
\* free or saves at least the minimum savings percentage.
C9_QualityFiltered ==
  \A i \in 1..Len(allDeals) :
    /\ allDeals[i].imageUrl # ""
    /\ allDeals[i].dealPrice = Free \/ allDeals[i].savings >= Percent(MIN_SAVINGS_PERCENT)

\* C10 as claimed: the final list has free deals before priced deals, then
\* higher savings first, then the more recent datePosted first.
RankedBefore(a, b) ==
  \/ a.dealPrice = Free /\ b.dealPrice # Free
  \/ /\ (a.dealPrice = Free) = (b.dealPrice = Free)
     /\ \/ a.savings > b.savings
        \/ a.savings = b.savings /\ a.datePosted >= b.datePosted

C11_WithinLimit ==
  (handler = "p12GET" /\ Aggregated) => Len(allDeals) <= limit.deals

\* C12: generateAffiliateUrl returns the store's direct-link pattern with the
\* gameId in place of its placeholder exactly when the resolved store is a
\* direct-link store and the gameId is not empty, and the redirect URL of the
\* dealId in every other case.
ResolvedDirect(fn, storeId) ==
  IF fn = "generateAffiliateUrl" THEN DetectStore(storeId).isDirectLink
  ELSE storeId \in DOMAIN STORE_CONFIGS_rss /\ STORE_CONFIGS_rss[storeId].isDirectLink

ResolvedPattern(fn, storeId) ==
  IF fn = "generateAffiliateUrl" THEN DetectStore(storeId).affiliateUrlPattern
  ELSE STORE_CONFIGS_rss[storeId].affiliateUrlPattern

C12_DirectOnlyWhenCapable ==
  call.fn \in {"generateAffiliateUrl", "generateAffiliateUrl_rss"} =>
    LET dealId == call.args[1]
        storeId == call.args[2]
        gameId == call.args[3]
    IN IF ResolvedDirect(call.fn, storeId) /\ gameId # ""
       THEN /\ Len(call.result) = Len(ResolvedPattern(call.fn, storeId))
            /\ \A i \in 1..Len(call.result) :
                 IF ResolvedPattern(call.fn, storeId)[i] = "{gameId}"
                 THEN call.result[i] = gameId
                 ELSE ResolvedPattern(call.fn, storeId)[i] = "{affiliateCode}"
                        \/ call.result[i] = ResolvedPattern(call.fn, storeId)[i]
       ELSE call.result = Redirect(dealId)

C12_Witness ==
  /\ call.fn = "generateAffiliateUrl"
  /\ call.args = <<"d1", "1", "440">>
  /\ call.result = <<"https://store.steampowered.com/app/", "440", "?curator_clanid=",
                     "38030065">>

\* C13: detectStore returns the default configuration for every storeId
\* that has no entry in its registry.
Registered(fn, storeId) ==
  CASE fn = "detectStore" -> storeId \in DOMAIN STORE_CONFIGS
    [] fn = "detectStore_p10" -> storeId # "" /\ Trim(storeId) \in DOMAIN storeConfigs
    [] fn = "detectStore_p13" -> storeId \in DOMAIN storeMap

C13_UnknownStoreDefault ==
  (/\ call.fn \in {"detectStore", "detectStore_p10", "detectStore_p13"}
   /\ ~Registered(call.fn, call.args[1]))
    => call.result = defaultStoreConfig

\* C14 as claimed: a deal that has an id is written under its id, and only
\* a deal without id is written under a time+random identifier.
C14_DocIdIsId ==
  \A i \in 1..Len(batch) :
    IF Has(allDeals[i], "id") THEN batch[i].docId = allDeals[i].id
    ELSE "time" \in DOMAIN batch[i].docId

\* C14 as amended: a deal is written under its dealID; under its id when it
\* has no dealID; under a time+random identifier when it has neither.
C14_DocIdIsDealID ==
  \A i \in 1..Len(batch) :
    IF Has(allDeals[i], "dealID") THEN batch[i].docId = allDeals[i].dealID
    ELSE IF Has(allDeals[i], "id") THEN batch[i].docId = allDeals[i].id
    ELSE /\ "time" \in DOMAIN batch[i].docId
         /\ batch[i].docId.pre = <<"deal_">>
         /\ batch[i].docId.base \in Randoms

C14_Witness ==
  /\ call.fn = "saveDealsToDb"
  /\ Len(batch) = 2
  /\ ~Has(allDeals[1], "dealID") /\ batch[1].docId = Id(<<>>, "g1")
  /\ allDeals[2].id = Id(<<>>, "e1") /\ batch[2].docId = Id(<<"epic-">>, "e1")
  /\ batch[2].docId \in DOMAIN store

\* C15: a write to a document that exists changes only the fields that the
\* payload of the write holds; every other field of the document keeps its
\* value.
MergePreserves ==
  \A d \in DOMAIN store :
    /\ d \in DOMAIN store'
    /\ \A f \in DOMAIN store[d] :
         /\ f \in DOMAIN store'[d]
         /\ store'[d][f] # store[d][f]
              => \E i \in 1..Len(batch') :
                   batch'[i].docId = d /\ f \in DOMAIN batch'[i].data

C15_MergeKeepsFields == [][MergePreserves]_vars

\* the document of an earlier cron run, written again by a manual request,
\* still has the fetchMethod the payload of the manual request does not hold
C15_Witness ==
  /\ pc = "done"
  /\ response.status = 200
  /\ \E i \in 1..Len(batch) :
       /\ batch[i].docId \in DOMAIN store0
       /\ "fetchMethod" \notin DOMAIN batch[i].data
       /\ store[batch[i].docId].fetchMethod = "cron"
       /\ store[batch[i].docId].batchId = batch[i].data.batchId
       /\ store[batch[i].docId].batchId # store0[batch[i].docId].batchId

\* C16: the documents of one saveDealsToDb carry the batchId and the
\* lastUpdated of the invocation's write time, and an expiresAt 30 days after
\* it, whatever expiryDate and lastUpdated the deals bring.
C16_BatchMetadata ==
  \A i \in 1..Len(batch) :
    /\ batch[i].data.batchId = BatchId(now)
    /\ batch[i].data.lastUpdated = now
    /\ batch[i].data.expiresAt = now + EXPIRY_DAYS
    /\ (pc = "done" /\ response.status = 200) =>
         /\ store[batch[i].docId].batchId = BatchId(now)
         /\ store[batch[i].docId].lastUpdated = now
         /\ store[batch[i].docId].expiresAt = now + EXPIRY_DAYS

C16_Witness ==
  /\ pc = "done"
  /\ response.status = 200
  /\ \E i, j \in 1..Len(batch) :
       /\ batch[i].docId # batch[j].docId
       /\ "expiryDate" \in DOMAIN allDeals[i]
       /\ allDeals[i].expiryDate # now + EXPIRY_DAYS
       /\ "expiryDate" \notin DOMAIN allDeals[j]
\* C17: every deal an adapter produces with dealPrice 'Free' has savings 100
\* (checked on the deals made from records that have every price field).
C17_FreeSaves100 ==
  \A i \in 1..Len(ProducedFromComplete) :
    ProducedFromComplete[i].dealPrice = Free
      => ProducedFromComplete[i].savings = Percent(100)

\* C18: no deal an adapter produces has an originalPrice, a dealPrice or a
\* savings that is undefined or derived from NaN.
C18_NoUndefinedPrice ==
  \A i \in 1..Len(Produced) :
    /\ Produced[i].originalPrice # NaNPrice
    /\ Produced[i].dealPrice # NaNPrice
    /\ Produced[i].savings # Undefined

\* C19: originalPrice and dealPrice of every deal an adapter produces are
\* each 'Free' or of the form '$X.XX' (checked on the deals made from
\* records that have every price field).
C19_PriceFormat ==
  \A i \in 1..Len(ProducedFromComplete) :
    /\ ProducedFromComplete[i].originalPrice.sym \in {"Free", "$"}
    /\ ProducedFromComplete[i].dealPrice.sym \in {"Free", "$"}

\* C20: the savings of every deal an adapter produces is a whole number of
\* percent between 0 and 100 (checked on the deals made from records that
\* have every price field).
C20_SavingsInRange ==
  \A i \in 1..Len(ProducedFromComplete) :
    /\ ProducedFromComplete[i].savings % Percent(1) = 0
    /\ 0 <= ProducedFromComplete[i].savings
    /\ ProducedFromComplete[i].savings <= Percent(100)

\* C21: every slug generated from a title is lowercase, made of runs of
\* [a-z0-9] separated by single hyphens, without a hyphen at either end, and
\* at most 50 characters long.
C21_SlugShape ==
  SlugMade => WellFormedSlug(call.result) /\ Len(call.result) <= SLUG_MAX

\* C22: no two deals of a run's output share a slug (checked on the deals
\* that differ in their id).
C22_UniqueSlugs ==
  \A i, j \in 1..Len(allDeals) :
    allDeals[i].id # allDeals[j].id => allDeals[i].slug # allDeals[j].slug

\* C23: the minimum-savings filter keeps every raw deal whose sale price is 0
\* (that has an image, where images are filtered too), and keeps a priced
\* deal only if its savings is at least the threshold.
C23_FreeNeverDropped ==
  Filtered =>
    /\ \A i \in 1..Len(call.args[1]) :
         (call.args[1][i].salePrice = 0 /\ HasThumb(call.args[1][i]))
           => call.args[1][i] \in Range(call.result)
    /\ \A i \in 1..Len(call.result) :
         call.result[i].salePrice # 0
           => call.result[i].savings >= Percent(Threshold)

\* C24: addTrackingParameters applied to its own result for the same source
\* returns that result unchanged, and the utm parameters appear once.
C24_TrackingIdempotent ==
  (call.fn = "addTrackingParameters" /\ Tracked(call.args[1], call.args[2]))
    => /\ call.result = call.args[1]
       /\ Occurrences(call.result, "utm_source=dailygamedrops") = 1

\* C25: the store write of a run starts only after every adapter has
\* settled: while a commit is under way or the store has changed, no fetch
\* of the run is pending.
C25_WriteAfterSettled ==
  (pc = "committing" \/ store # store0)
    => \A t \in Tasks : task[t].st # "pending"

\* a run wrote to the store after one of its adapters had failed and the
\* others had answered
C25_Witness ==
  /\ store # store0
  /\ response.status = 200
  /\ task["epic"].st = "failed"
  /\ task["humble"].st = "ok"
  /\ task["cs"].st = "ok"

RedeliveryAddsNothing ==
  (Redelivered' /\ AllIdentified(call.args[1]))
    => /\ DOMAIN store' \subseteq DOMAIN store \cup Keys(call.args[1])
       /\ call.result = TRUE => DOMAIN store' = DOMAIN store

C27_RedeliveryIdempotent == [][RedeliveryAddsNothing]_vars

\* a list of identified deals was delivered again at a later instant, with
\* success, and the store holds its documents and the earlier ones only
C27_Witness ==
  /\ Redelivered
  /\ call.result = TRUE
  /\ AllIdentified(call.args[1])
  /\ Len(call.args[1]) = 2
  /\ now = MaxNow + MaxLater
  /\ DOMAIN store = DOMAIN store0 \cup Keys(call.args[1])

\* C30: an invocation of saveDealsToDb assigns a batchId that the invocation
\* before it did not assign.
FreshBatchId ==
  (call.fn = "saveDealsToDb" /\ call'.fn = "saveDealsToDb")
    => batch'[1].data.batchId # batch[1].data.batchId

C30_DistinctBatchIds == [][FreshBatchId]_vars

\* C28: when CRON_SECRET is not configured, a POST is answered with an
\* error whatever its Authorization header is, and in that invocation no
\* fetch is issued and nothing is written to the store.
C28_NoSecretNoRun ==
  (handler \in PostHandlers /\ cronSecret = "")
    => /\ pc = "done"
       /\ response.status \in {401, 500}
       /\ response.error # ""
       /\ \A t \in Tasks : task[t] = Idle
       /\ allDeals = <<>>
       /\ batch = <<>>
       /\ store = store0

\* a POST that carries the header an unset secret would be compared with
C28_Witness ==
  /\ handler = "p12POST"
  /\ cronSecret = ""
  /\ authHeader = "Bearer undefined"
  /\ response.status = 500

\* C29: the list a run hands to the store is fixed by the results of its
\* adapters and the configured order (Discount API, Humble, Epic), whatever
\* the order in which the fetches completed: it holds the deals of the three
\* results and no other, newest datePosted first, and deals of one datePosted
\* in the configured order of their sources and, within a source, in the
\* order of that source's result.
SourceTypes == <<"cheapshark", "humble", "epic">>
BatchFields == {"batchTimestamp", "lastUpdated", "fetchMethod"}
WithoutBatchInfo(deal) == [f \in DOMAIN deal \ BatchFields |-> deal[f]]
Of(deals, k, date) ==
  Filter(deals, [d \in Range(deals) |->
                   d.sourceType = SourceTypes[k] /\ d.datePosted = date])

C29_OrderFromSources ==
  pc = "committing" =>
    LET parts == <<CheapSharkDeals(handler, task, now), task["humble"].val,
                   task["epic"].val>>
        merged == [i \in 1..Len(allDeals) |-> WithoutBatchInfo(allDeals[i])]
        rank == [i \in 1..Len(merged) |->
                   CHOOSE k \in 1..3 : SourceTypes[k] = merged[i].sourceType]
    IN /\ Len(merged) = Len(parts[1]) + Len(parts[2]) + Len(parts[3])
       /\ \A i, j \in 1..Len(merged) :
            i < j => /\ merged[i].datePosted >= merged[j].datePosted
                     /\ merged[i].datePosted = merged[j].datePosted
                          => rank[i] <= rank[j]
       /\ \A k \in 1..3 : \A i \in 1..Len(merged) :
            Of(merged, k, merged[i].datePosted) = Of(parts[k], k, merged[i].datePosted)

\* a list with a Humble deal and an Epic deal of the same datePosted
C29_Witness ==
  /\ pc = "committing"
  /\ Len(task["cs"].val) > 0
  /\ \E i, j \in 1..Len(allDeals) :
       /\ i < j
       /\ allDeals[i].sourceType = "humble"
       /\ allDeals[j].sourceType = "epic"
       /\ allDeals[i].datePosted = allDeals[j].datePosted

====
